---------------------------- MODULE Spec2Model ----------------------------
(***************************************************************************)
(* The ledger of the expenses service (src/app/views.py over the tables    *)
(* of src/app/models.py): users, categories, accounts and records, and     *)
(* the request handlers that change them.                                  *)
(*                                                                         *)
(* The committed content of the database is the variable db.  A handler    *)
(* is split where the code splits it: its SELECTs (<handler>_load, which   *)
(* returns either the early error response or the unit of work the session *)
(* holds) and its flush and commit (<handler>_commit, which applies the    *)
(* unit of work to the committed tables under the constraints of           *)
(* models.py, or fails and rolls back).  Spec runs the requests one at a   *)
(* time (load and commit in one step); SpecConc runs them on two workers   *)
(* whose loads and commits interleave (PostgreSQL READ COMMITTED, the      *)
(* default of the engine config.py names).                                 *)
(*                                                                         *)
(* Money is counted in thousandths (mills): 10 is 0.01.  A Decimal is a    *)
(* record [k, v]: k = "fin" with the value v, or the special values "nan", *)
(* "inf", and "huge", which stands for any finite value of at least 10^10  *)
(* (more than a Numeric(12, 2) column holds).                              *)
(***************************************************************************)
EXTENDS Integers, FiniteSets, Sequences, TLC

\* Bounds of the model: the rows ever inserted into users, categories and
\* records together, the largest balance, in hundredths, and the user ids
\* that hold an access token.
MaxRows == 4
MaxBalanceCents == 2
MaxTokens == 2

Workers == {1, 2}

VARIABLES db, resp, sess, tokens
vars == <<db, resp, sess, tokens>>

-----------------------------------------------------------------------------
\* Decimal arithmetic, as decimal.Decimal and the Numeric columns do it.

Fin(x) == [k |-> "fin", v |-> x]
NaN == [k |-> "nan", v |-> 0]
Inf == [k |-> "inf", v |-> 0]
Huge == [k |-> "huge", v |-> 0]
Missing == [k |-> "missing", v |-> 0]
NotANumber == [k |-> "str", v |-> 0]

\* float(data["amount"]): TypeError / ValueError for what is no number.
float_raises(x) == x.k = "str"

\* amount_value <= 0 on a float: false for nan, true for what is not positive.
float_le_zero(x) == x.k = "fin" /\ x.v <= 0

\* Decimal + Decimal (quiet NaN propagates; no trap).
dec_add(a, b) ==
    IF a.k = "nan" \/ b.k = "nan" THEN NaN
    ELSE IF a.k = "inf" \/ b.k = "inf" THEN Inf
    ELSE IF a.k = "huge" \/ b.k = "huge" THEN Huge
    ELSE Fin(a.v + b.v)

\* Decimal - Decimal, used only where a >= b are both finite.
dec_sub(a, b) ==
    IF a.k = "nan" \/ b.k = "nan" THEN NaN
    ELSE IF b.k = "inf" \/ b.k = "huge" THEN NaN
    ELSE Fin(a.v - b.v)

\* a < b on Decimals raises InvalidOperation when either is NaN.
dec_lt_raises(a, b) == a.k = "nan" \/ b.k = "nan"

dec_lt(a, b) ==
    IF a.k = "fin" /\ b.k = "fin" THEN a.v < b.v
    ELSE IF a.k = "fin" THEN TRUE
    ELSE IF a.k = "huge" THEN b.k = "inf"
    ELSE FALSE

\* A finite value rounded to two decimal places, half away from zero, as
\* PostgreSQL stores a numeric(p, 2).
round2(x) ==
    IF x >= 0 THEN ((x + 5) \div 10) * 10 ELSE 0 - (((0 - x) + 5) \div 10) * 10

\* What a Numeric(p, 2) column takes: the driver sends a non-finite Decimal
\* as 'NaN'::numeric, which the column holds; a value past the precision is
\* a DataError.
numeric_overflows(d) == d.k = "huge"

to_numeric(d) ==
    IF d.k = "fin" THEN Fin(round2(d.v)) ELSE NaN

-----------------------------------------------------------------------------
\* Responses.

Response(op, code, body) == [op |-> op, code |-> code, body |-> body]
error_response(op, message, code) == Response(op, code, [error |-> message])
\* An exception that leaves the handler: Flask answers 500, the session is
\* removed and its transaction rolled back.
server_error(op, exc) == Response(op, 500, [error |-> exc])

user_to_dict(u) == [id |-> u.id, username |-> u.username]
category_to_dict(c) == [id |-> c.id, name |-> c.name]
account_to_dict(a) == [id |-> a.id, user_id |-> a.user_id, balance |-> a.balance]
record_to_dict(r) ==
    [id |-> r.id, user_id |-> r.user_id, category_id |-> r.category_id,
     created_at |-> r.created_at, amount |-> r.amount]

\* The result of a load: the handler returned early with r, or holds work.
Early(r) == [done |-> TRUE, resp |-> r]
Work(w) == [done |-> FALSE, work |-> w]
\* The result of a commit (or of a whole handler).
Result(d, r) == [db |-> d, resp |-> r]

-----------------------------------------------------------------------------
\* Queries.

user_get(d, id) == {u \in d.users : u.id = id}
category_get(d, id) == {c \in d.categories : c.id = id}
record_get(d, id) == {r \in d.records : r.id = id}
\* user.account: the rows of accounts with this user_id.
user_account(d, user_id) == {a \in d.accounts : a.user_id = user_id}
\* Account.id is a serial.  The model names a new row by its user and its
\* ordinal among that user's rows: user ids are never reused and an account
\* goes only with its user, so the name is as unique as the serial.
account_id(d, user_id) == <<user_id, Cardinality(user_account(d, user_id)) + 1>>

-----------------------------------------------------------------------------
\* Constraints the tables of models.py put on a flush.

\* (as account_insert_violates, were user_id not declared unique)
account_insert_violates_not_unique(d, user_id) == user_get(d, user_id) = {}

\* INSERT INTO accounts: user_id is a foreign key to users and is unique.
account_insert_violates(d, user_id) ==
    \/ user_get(d, user_id) = {}
    \/ user_account(d, user_id) # {}

\* INSERT INTO records: user_id and category_id are foreign keys.
record_insert_violates(d, user_id, category_id) ==
    \/ user_get(d, user_id) = {}
    \/ category_get(d, category_id) = {}

\* A name of more than 128 characters, which String(128) does not hold.
LongName == "long"
name_too_long(name) == name = LongName

\* (as category_insert_violates, were name not declared unique)
category_insert_violates_not_unique(d, name) == name_too_long(name)

\* INSERT INTO categories: name is unique and of 128 characters at most.
category_insert_violates(d, name) ==
    \/ \E c \in d.categories : c.name = name
    \/ name_too_long(name)

-----------------------------------------------------------------------------
\* POST /user

\* passlib's pbkdf2_sha256: the hash of a password (its salt left out) and
\* the verification of a password against a hash.
pbkdf2_sha256_hash(password) == [pbkdf2_sha256 |-> password]
pbkdf2_sha256_verify(password, hash) == hash = pbkdf2_sha256_hash(password)

register_user_load(d, username, password, name) ==
    IF username = "" \/ password = "" \/ name = ""
    THEN Early(error_response("register_user", "fields required", 400))
    ELSE IF \E u \in d.users : u.username = username
    THEN Early(error_response("register_user", "username exists", 400))
    ELSE Work([op |-> "register_user", username |-> username,
               password |-> pbkdf2_sha256_hash(password)])

register_user_commit(d, w) ==
    LET user == [id |-> d.seq.users, username |-> w.username,
                 password |-> w.password]
    IN  Result([d EXCEPT !.users = @ \cup {user}, !.seq.users = @ + 1],
               Response("register_user", 201, user_to_dict(user)))

\* POST /login: the access token names the user by id.
create_access_token(identity) == [access_token |-> identity]

login(d, username, password) ==
    IF username = "" \/ password = ""
    THEN Result(d, error_response("login", "fields required", 400))
    ELSE LET user == {u \in d.users : u.username = username}
         IN  IF /\ user # {}
                /\ pbkdf2_sha256_verify(password,
                                        (CHOOSE u \in user : TRUE).password)
             THEN Result(d, Response("login", 200,
                     create_access_token((CHOOSE u \in user : TRUE).id)))
             ELSE Result(d, error_response("login", "invalid credentials", 401))

\* DELETE /user/<user_id>: the delete cascades to the user's records and
\* account (relationship cascade, and ON DELETE CASCADE for rows the session
\* did not load).
delete_user_load(d, user_id) ==
    IF user_get(d, user_id) = {}
    THEN Early(error_response("delete_user", "User not found", 404))
    ELSE Work([op |-> "delete_user", user_id |-> user_id])

delete_user_commit(d, w) ==
    Result([d EXCEPT !.users = {u \in @ : u.id # w.user_id},
                     !.accounts = {a \in @ : a.user_id # w.user_id},
                     !.records = {r \in @ : r.user_id # w.user_id}],
           Response("delete_user", 200, [status |-> "deleted"]))

-----------------------------------------------------------------------------
\* GET /user/<user_id>/account

\* (as get_account_load, were the account there is not looked for)
get_account_load_always_new(d, user_id) ==
    IF user_get(d, user_id) = {}
    THEN Early(error_response("get_account", "User not found", 404))
    ELSE Work([op |-> "get_account", user_id |-> user_id])

get_account_load(d, user_id) ==
    IF user_get(d, user_id) = {}
    THEN Early(error_response("get_account", "User not found", 404))
    ELSE LET account == user_account(d, user_id)
         IN  IF account # {}
             THEN Early(Response("get_account", 200,
                                 account_to_dict(CHOOSE a \in account : TRUE)))
             ELSE Work([op |-> "get_account", user_id |-> user_id])

get_account_commit(d, w) ==
    IF account_insert_violates(d, w.user_id)
    THEN Result(d, server_error("get_account", "IntegrityError"))
    ELSE LET account == [id |-> account_id(d, w.user_id), user_id |-> w.user_id,
                         balance |-> Fin(0)]
         IN  Result([d EXCEPT !.accounts = @ \cup {account}],
                    Response("get_account", 200, account_to_dict(account)))

\* POST /user/<user_id>/account/deposit
deposit_to_account_load(d, user_id, amount) ==
    IF user_get(d, user_id) = {}
    THEN Early(error_response("deposit_to_account", "User not found", 404))
    ELSE IF amount.k = "missing"
    THEN Early(error_response("deposit_to_account", "amount is required", 400))
    ELSE IF float_raises(amount)
    THEN Early(error_response("deposit_to_account", "amount must be a number", 400))
    ELSE IF float_le_zero(amount)
    THEN Early(error_response("deposit_to_account", "amount must be positive", 400))
    ELSE LET account == user_account(d, user_id)
         IN  IF account = {}
             THEN Work([op |-> "deposit_to_account", user_id |-> user_id,
                        insert |-> TRUE, account_id |-> <<>>,
                        balance |-> dec_add(Fin(0), amount)])
             ELSE LET a == CHOOSE a \in account : TRUE
                  IN  Work([op |-> "deposit_to_account", user_id |-> user_id,
                            insert |-> FALSE, account_id |-> a.id,
                            balance |-> dec_add(a.balance, amount)])

deposit_to_account_commit(d, w) ==
    IF w.insert /\ account_insert_violates(d, w.user_id)
    THEN Result(d, server_error("deposit_to_account", "IntegrityError"))
    ELSE IF ~w.insert /\ ~\E a \in d.accounts : a.id = w.account_id
    THEN Result(d, server_error("deposit_to_account", "StaleDataError"))
    ELSE IF numeric_overflows(w.balance)
    THEN Result(d, server_error("deposit_to_account", "DataError"))
    ELSE IF w.insert
    THEN LET account == [id |-> account_id(d, w.user_id), user_id |-> w.user_id,
                         balance |-> to_numeric(w.balance)]
         IN  Result([d EXCEPT !.accounts = @ \cup {account}],
                    Response("deposit_to_account", 200, account_to_dict(account)))
    ELSE LET old == CHOOSE a \in d.accounts : a.id = w.account_id
             account == [old EXCEPT !.balance = to_numeric(w.balance)]
         IN  Result([d EXCEPT !.accounts = (@ \ {old}) \cup {account}],
                    Response("deposit_to_account", 200, account_to_dict(account)))

-----------------------------------------------------------------------------
\* POST /category

create_category_load(d, name) ==
    IF name = ""
    THEN Early(error_response("create_category", "name is required", 400))
    ELSE Work([op |-> "create_category", name |-> name])

\* The commit fails on the unique name; the handler rolls back and answers 400.
create_category_commit(d, w) ==
    IF category_insert_violates(d, w.name)
    THEN Result(d, error_response("create_category", "name exists", 400))
    ELSE LET category == [id |-> d.seq.categories, name |-> w.name]
         IN  Result([d EXCEPT !.categories = @ \cup {category},
                              !.seq.categories = @ + 1],
                    Response("create_category", 201, category_to_dict(category)))

\* DELETE /category?id=: the delete cascades to the category's records.
delete_category_load(d, has_id, category_id) ==
    IF ~has_id
    THEN Early(error_response("delete_category", "id is required", 400))
    ELSE IF category_get(d, category_id) = {}
    THEN Early(error_response("delete_category", "Category not found", 404))
    ELSE Work([op |-> "delete_category", category_id |-> category_id])

\* (as delete_category_commit, were the records of the category left behind)
delete_category_commit_no_cascade(d, w) ==
    Result([d EXCEPT !.categories = {c \in @ : c.id # w.category_id}],
           Response("delete_category", 200, [status |-> "deleted"]))

delete_category_commit(d, w) ==
    Result([d EXCEPT !.categories = {c \in @ : c.id # w.category_id},
                     !.records = {r \in @ : r.category_id # w.category_id}],
           Response("delete_category", 200, [status |-> "deleted"]))

-----------------------------------------------------------------------------
\* DELETE /record/<record_id>

delete_record_load(d, record_id) ==
    IF record_get(d, record_id) = {}
    THEN Early(error_response("delete_record", "Record not found", 404))
    ELSE Work([op |-> "delete_record", record_id |-> record_id])

\* (as delete_record_commit, were the Record's amount put back on the balance)
delete_record_commit_refund(d, w) ==
    LET gone == {r \in d.records : r.id = w.record_id}
        back(a) == IF \E r \in gone : r.user_id = a.user_id
                   THEN [a EXCEPT !.balance =
                            dec_add(@, (CHOOSE r \in gone : TRUE).amount)]
                   ELSE a
    IN  Result([d EXCEPT !.records = @ \ gone,
                         !.accounts = {back(a) : a \in @}],
               Response("delete_record", 200, [status |-> "deleted"]))

delete_record_commit(d, w) ==
    Result([d EXCEPT !.records = {r \in @ : r.id # w.record_id}],
           Response("delete_record", 200, [status |-> "deleted"]))

\* POST /record.  A request rq is [fields, user_id, category_id, amount,
\* created_at]: fields are the keys of the JSON body among the required ones.

RequiredFields == {"user_id", "category_id", "amount"}

\* datetime.fromisoformat(created_at_str), a naive value taken as UTC; an
\* empty or absent created_at is the time of the request.
created_at_raises(s) == s = "bad"
parse_created_at(s) ==
    IF s = "" THEN "now" ELSE IF s \in {"t0", "t0+00:00"} THEN "t0+00:00" ELSE s

create_record_load(d, rq) ==
    IF RequiredFields \ rq.fields # {}
    THEN Early(error_response("create_record", "Missing fields", 400))
    ELSE IF user_get(d, rq.user_id) = {}
    THEN Early(error_response("create_record", "User does not exist", 400))
    ELSE IF category_get(d, rq.category_id) = {}
    THEN Early(error_response("create_record", "Category does not exist", 400))
    ELSE IF float_raises(rq.amount)
    THEN Early(error_response("create_record", "amount must be a number", 400))
    ELSE IF float_le_zero(rq.amount)
    THEN Early(error_response("create_record", "amount must be positive", 400))
    ELSE IF created_at_raises(rq.created_at)
    THEN Early(error_response("create_record", "created_at must be valid", 400))
    ELSE LET account == user_account(d, rq.user_id)
         IN  IF account = {}
             THEN \* a new Account is added and flushed, then compared
                  Work([op |-> "create_record", insert |-> TRUE,
                        user_id |-> rq.user_id, amount |-> rq.amount])
             ELSE LET a == CHOOSE a \in account : TRUE
                  IN  IF dec_lt_raises(a.balance, rq.amount)
                      THEN Early(server_error("create_record", "InvalidOperation"))
                      ELSE IF dec_lt(a.balance, rq.amount)
                      THEN Early(error_response("create_record",
                                                "Insufficient funds", 400))
                      ELSE Work([op |-> "create_record", insert |-> FALSE,
                                 user_id |-> rq.user_id,
                                 category_id |-> rq.category_id,
                                 amount |-> rq.amount,
                                 created_at |-> parse_created_at(rq.created_at),
                                 account_id |-> a.id,
                                 balance |-> dec_sub(a.balance, rq.amount)])

\* (as create_record_commit, were the Record committed without the balance)
create_record_commit_no_debit(d, w) ==
    IF w.insert
    THEN Result(d, error_response("create_record", "Insufficient funds", 400))
    ELSE LET record == [id |-> d.seq.records, user_id |-> w.user_id,
                        category_id |-> w.category_id,
                        created_at |-> w.created_at,
                        amount |-> to_numeric(w.amount)]
         IN  Result([d EXCEPT !.records = @ \cup {record},
                              !.seq.records = @ + 1],
                    Response("create_record", 201, record_to_dict(record)))

\* With a new Account: the flush of its INSERT, then the comparison of its
\* balance 0 with the amount; the handler returns without a commit, so the
\* INSERT is rolled back.  Otherwise: the UPDATE of the balance and the INSERT
\* of the Record, committed together.
create_record_commit(d, w) ==
    IF w.insert
    THEN IF account_insert_violates(d, w.user_id)
         THEN Result(d, server_error("create_record", "IntegrityError"))
         ELSE IF dec_lt_raises(Fin(0), w.amount)
         THEN Result(d, server_error("create_record", "InvalidOperation"))
         ELSE IF dec_lt(Fin(0), w.amount)
         THEN Result(d, error_response("create_record", "Insufficient funds", 400))
         ELSE Result(d, server_error("create_record", "unreachable"))
    ELSE IF ~\E a \in d.accounts : a.id = w.account_id
    THEN Result(d, server_error("create_record", "StaleDataError"))
    ELSE IF record_insert_violates(d, w.user_id, w.category_id)
    THEN Result(d, server_error("create_record", "IntegrityError"))
    ELSE LET old == CHOOSE a \in d.accounts : a.id = w.account_id
             account == [old EXCEPT !.balance = to_numeric(w.balance)]
             record == [id |-> d.seq.records, user_id |-> w.user_id,
                        category_id |-> w.category_id,
                        created_at |-> w.created_at,
                        amount |-> to_numeric(w.amount)]
         IN  Result([d EXCEPT !.accounts = (@ \ {old}) \cup {account},
                              !.records = @ \cup {record},
                              !.seq.records = @ + 1],
                    Response("create_record", 201, record_to_dict(record)))

-----------------------------------------------------------------------------
\* A request from its load to its response.

Commit(d, w) ==
    CASE w.op = "register_user" -> register_user_commit(d, w)
      [] w.op = "delete_user" -> delete_user_commit(d, w)
      [] w.op = "get_account" -> get_account_commit(d, w)
      [] w.op = "deposit_to_account" -> deposit_to_account_commit(d, w)
      [] w.op = "create_category" -> create_category_commit(d, w)
      [] w.op = "delete_category" -> delete_category_commit(d, w)
      [] w.op = "delete_record" -> delete_record_commit(d, w)
      [] w.op = "create_record" -> create_record_commit(d, w)

Run(d, loaded) ==
    IF loaded.done THEN Result(d, loaded.resp) ELSE Commit(d, loaded.work)

register_user(d, username, password, name) ==
    Run(d, register_user_load(d, username, password, name))
delete_user(d, user_id) == Run(d, delete_user_load(d, user_id))
get_account(d, user_id) == Run(d, get_account_load(d, user_id))
deposit_to_account(d, user_id, amount) ==
    Run(d, deposit_to_account_load(d, user_id, amount))
create_category(d, name) == Run(d, create_category_load(d, name))
delete_category(d, has_id, category_id) ==
    Run(d, delete_category_load(d, has_id, category_id))
delete_record(d, record_id) == Run(d, delete_record_load(d, record_id))
create_record(d, rq) == Run(d, create_record_load(d, rq))

\* GET /record?user_id=&category_id=.  A query parameter is absent, an
\* integer, or text that int() refuses.
Absent == [k |-> "absent"]
NotAnInt == [k |-> "text"]
IntParam(n) == [k |-> "int", v |-> n]
\* request.args.get(key, type=int): the value, or None when there is none or
\* int() raises ValueError.
args_get_int(q) == IF q.k = "int" THEN q ELSE Absent

\* query.order_by(Record.id.asc()).all()
RECURSIVE order_by_id(_)
order_by_id(rows) ==
    IF rows = {} THEN <<>>
    ELSE LET first == CHOOSE r \in rows : \A o \in rows : r.id <= o.id
         IN  <<first>> \o order_by_id(rows \ {first})

list_records(d, rq) ==
    LET user_id == args_get_int(rq.user_id)
        category_id == args_get_int(rq.category_id)
        rows == {r \in d.records :
                    /\ user_id # Absent => r.user_id = user_id.v
                    /\ category_id # Absent => r.category_id = category_id.v}
        records == order_by_id(rows)
    IN  IF user_id = Absent /\ category_id = Absent
        THEN Result(d, error_response("list_records", "filter required", 400))
        ELSE Result(d, Response("list_records", 200,
                [items |-> [i \in 1..Len(records) |-> record_to_dict(records[i])]]))

-----------------------------------------------------------------------------
\* The inputs of the requests.

\* A handler returns at the first check that fails, so what the request
\* holds past that check is not read: the inputs below take each way through
\* a handler once.  Ids are those of the rows there are and the next id of the
\* sequence, which no row has.
UserIds == {u.id : u \in db.users} \cup {db.seq.users}
CategoryIds == {c.id : c \in db.categories} \cup {db.seq.categories}
RecordIds == {r.id : r \in db.records} \cup {db.seq.records}
Usernames == {"alice", "bob"}
UserRequests ==
    [username : Usernames, password : {"pw"}, name : {"Alice"}]
    \cup {[username |-> "", password |-> "pw", name |-> "Alice"],
          [username |-> "alice", password |-> "", name |-> "Alice"],
          [username |-> "alice", password |-> "pw", name |-> ""]}
CategoryNames == {"", "food", "rent", LongName}
FiniteAmounts == {Fin(0 - 10), Fin(0), Fin(4), Fin(5), Fin(10)}
Amounts == FiniteAmounts \cup {NotANumber, NaN, Inf, Huge}
DepositAmounts == Amounts \cup {Missing}
CreatedAts == {"", "t0", "t0+00:00", "bad"}
DepositRequests ==
    [user_id : {u.id : u \in db.users}, amount : DepositAmounts]
    \cup {[user_id |-> db.seq.users, amount |-> Fin(10)]}
\* The read-only handlers.
healthcheck(d) == Result(d, Response("healthcheck", 200, [status |-> "ok"]))

\* The rows in the order of their ids, each as its dict.
listed(op, dicts) == Response(op, 200, [items |-> order_by_id(dicts)])

get_user(d, user_id) ==
    IF user_get(d, user_id) = {}
    THEN Result(d, error_response("get_user", "User not found", 404))
    ELSE Result(d, Response("get_user", 200,
                   user_to_dict(CHOOSE u \in user_get(d, user_id) : TRUE)))

list_users(d) ==
    Result(d, listed("list_users", {user_to_dict(u) : u \in d.users}))

list_categories(d) ==
    Result(d, listed("list_categories",
                     {category_to_dict(c) : c \in d.categories}))

get_record(d, record_id) ==
    IF record_get(d, record_id) = {}
    THEN Result(d, error_response("get_record", "Record not found", 404))
    ELSE Result(d, Response("get_record", 200,
                   record_to_dict(CHOOSE r \in record_get(d, record_id) : TRUE)))

-----------------------------------------------------------------------------
\* Credentials.  A request carries no token, a token the server did not sign,
\* or a token login issued for a user id, before or after it expired.
NoCredential == [k |-> "none"]
BadCredential == [k |-> "invalid"]
Expired(identity) == [k |-> "expired", identity |-> identity]
Valid(identity) == [k |-> "valid", identity |-> identity]

\* (as jwt_required, were a request without a token let through)
jwt_required_optional(cred) == cred.k \in {"valid", "none"}

\* @jwt_required(): the view runs for a valid token only; the loaders of
\* __init__.py answer the others.
jwt_required(cred) == cred.k = "valid"

\* The loaders answer in place of the view, whichever the route.
unauthorized(cred) ==
    CASE cred.k = "expired" ->
            Response("jwt_required", 401, [error |-> "token_expired"])
      [] cred.k = "invalid" ->
            Response("jwt_required", 401, [error |-> "invalid_token"])
      [] OTHER ->
            Response("jwt_required", 401, [error |-> "authorization_required"])

get_jwt_identity(cred) ==
    IF cred.k \in {"valid", "expired"} THEN cred.identity ELSE 0

\* The routes without @jwt_required().
PublicOps == {"healthcheck", "register_user", "login"}

\* (as view, were a user's account and the user itself only the caller's to
\* change)
view_owner_only(d, rq, _current_user_id) ==
    CASE rq.op = "healthcheck" -> healthcheck(d)
      [] rq.op = "register_user" ->
            register_user(d, rq.username, rq.password, rq.name)
      [] rq.op = "login" -> login(d, rq.username, rq.password)
      [] rq.op = "get_user" -> get_user(d, rq.user_id)
      [] rq.op = "delete_user" ->
            IF rq.user_id # _current_user_id
            THEN Result(d, error_response("delete_user", "forbidden", 403))
            ELSE delete_user(d, rq.user_id)
      [] rq.op = "list_users" -> list_users(d)
      [] rq.op = "get_account" -> get_account(d, rq.user_id)
      [] rq.op = "deposit_to_account" ->
            IF rq.user_id # _current_user_id
            THEN Result(d, error_response("deposit_to_account", "forbidden", 403))
            ELSE deposit_to_account(d, rq.user_id, rq.amount)
      [] rq.op = "list_categories" -> list_categories(d)
      [] rq.op = "create_category" -> create_category(d, rq.name)
      [] rq.op = "delete_category" -> delete_category(d, TRUE, rq.category_id)
      [] rq.op = "get_record" -> get_record(d, rq.record_id)
      [] rq.op = "delete_record" -> delete_record(d, rq.record_id)
      [] rq.op = "create_record" -> create_record(d, rq.body)
      [] rq.op = "list_records" -> list_records(d, rq.args)

\* A view, as its route calls it: every protected view reads the caller's id
\* into _current_user_id first.
view(d, rq, _current_user_id) ==
    CASE rq.op = "healthcheck" -> healthcheck(d)
      [] rq.op = "register_user" ->
            register_user(d, rq.username, rq.password, rq.name)
      [] rq.op = "login" -> login(d, rq.username, rq.password)
      [] rq.op = "get_user" -> get_user(d, rq.user_id)
      [] rq.op = "delete_user" -> delete_user(d, rq.user_id)
      [] rq.op = "list_users" -> list_users(d)
      [] rq.op = "get_account" -> get_account(d, rq.user_id)
      [] rq.op = "deposit_to_account" ->
            deposit_to_account(d, rq.user_id, rq.amount)
      [] rq.op = "list_categories" -> list_categories(d)
      [] rq.op = "create_category" -> create_category(d, rq.name)
      [] rq.op = "delete_category" -> delete_category(d, TRUE, rq.category_id)
      [] rq.op = "get_record" -> get_record(d, rq.record_id)
      [] rq.op = "delete_record" -> delete_record(d, rq.record_id)
      [] rq.op = "create_record" -> create_record(d, rq.body)
      [] rq.op = "list_records" -> list_records(d, rq.args)

\* A request with its credential, from the route to the response.
Serve(d, rq, cred) ==
    IF rq.op \in PublicOps \/ jwt_required(cred)
    THEN view(d, rq, get_jwt_identity(cred))
    ELSE Result(d, unauthorized(cred))

UserIdParams == {Absent, NotAnInt} \cup {IntParam(u) : u \in UserIds}
CategoryIdParams == {Absent, NotAnInt} \cup {IntParam(c) : c \in CategoryIds}
ListRequests == [user_id : UserIdParams, category_id : CategoryIdParams]
\* Every amount with the default created_at, every created_at with one valid
\* amount, an unknown user, an unknown category, and the bodies that lack a
\* required field.
RecordRequests ==
    LET known == [fields : {RequiredFields}, user_id : {u.id : u \in db.users},
                  category_id : {c.id : c \in db.categories}]
        sample == [fields |-> RequiredFields, user_id |-> 1, category_id |-> 1,
                   amount |-> Fin(10), created_at |-> ""]
    IN  {[fields |-> k.fields, user_id |-> k.user_id,
          category_id |-> k.category_id, amount |-> a, created_at |-> ""] :
            k \in known, a \in Amounts}
        \cup {[fields |-> k.fields, user_id |-> k.user_id,
               category_id |-> k.category_id, amount |-> Fin(10),
               created_at |-> c] : k \in known, c \in CreatedAts}
        \cup {[sample EXCEPT !.user_id = db.seq.users],
              [sample EXCEPT !.category_id = db.seq.categories]}
        \cup {[sample EXCEPT !.fields = RequiredFields \ {f}] :
                f \in RequiredFields}

\* The model stops where the rows inserted or a balance pass their bound (and
\* at a second account of one user, which the unique constraint excludes).
WithinBounds(d) ==
    /\ (d.seq.users - 1) + (d.seq.categories - 1) + (d.seq.records - 1) <= MaxRows
    /\ \A a \in d.accounts :
        /\ a.balance.k = "fin" => a.balance.v <= MaxBalanceCents * 10
        /\ a.id[2] <= 2

-----------------------------------------------------------------------------
\* The state after construction: empty tables, sequences at 1, no request
\* answered, both workers idle.

Idle == [op |-> "idle"]
NoResponse == Response("none", 0, [status |-> "none"])

Init ==
    /\ db = [users |-> {}, categories |-> {}, accounts |-> {}, records |-> {},
             seq |-> [users |-> 1, categories |-> 1, records |-> 1]]
    /\ resp = NoResponse
    /\ sess = [w \in Workers |-> Idle]
    /\ tokens = {}

\* Requests one at a time: a handler from its first query to its response.
Handle(r) ==
    /\ WithinBounds(r.db)
    /\ db' = r.db
    /\ resp' = r.resp
    /\ UNCHANGED <<sess, tokens>>

RegisterUser ==
    \E rq \in UserRequests :
        Handle(register_user(db, rq.username, rq.password, rq.name))
DeleteUser == \E u \in UserIds : Handle(delete_user(db, u))
GetAccount == \E u \in UserIds : Handle(get_account(db, u))
Deposit ==
    \E rq \in DepositRequests :
        Handle(deposit_to_account(db, rq.user_id, rq.amount))
CreateCategory == \E n \in CategoryNames : Handle(create_category(db, n))
DeleteCategory ==
    \E h \in BOOLEAN, c \in CategoryIds : Handle(delete_category(db, h, c))
DeleteRecord == \E r \in RecordIds : Handle(delete_record(db, r))
CreateRecord == \E rq \in RecordRequests : Handle(create_record(db, rq))
ListRecords == \E rq \in ListRequests : Handle(list_records(db, rq))

Next ==
    \/ RegisterUser
    \/ DeleteUser
    \/ GetAccount
    \/ Deposit
    \/ CreateCategory
    \/ DeleteCategory
    \/ DeleteRecord
    \/ CreateRecord
    \/ ListRecords

Spec == Init /\ [][Next]_vars


-----------------------------------------------------------------------------
\* Requests on two workers.  Each worker has a session of its own: Begin is a
\* handler's queries against the committed tables, after which the session
\* holds the handler's unit of work; Finish is its flush and commit against
\* the tables as they are by then.  The requests are the valid ones on the
\* rows there are: what a handler rejects before it writes is as in Spec.

ConcUserRequests == {[username |-> "alice", password |-> "pw", name |-> "Alice"]}
ConcAmounts == {Fin(10)}
ConcCategoryNames == {"food", LongName}
ConcRecordRequests ==
    [fields : {RequiredFields}, user_id : {u.id : u \in db.users},
     category_id : {c.id : c \in db.categories}, amount : ConcAmounts,
     created_at : {""}]

Begin(w, loaded) ==
    /\ sess[w] = Idle
    /\ IF loaded.done
       THEN resp' = loaded.resp /\ UNCHANGED <<db, sess>>
       ELSE sess' = [sess EXCEPT ![w] = loaded.work] /\ UNCHANGED <<db, resp>>
    /\ UNCHANGED tokens

BeginRegisterUser(w) ==
    \E rq \in ConcUserRequests :
        Begin(w, register_user_load(db, rq.username, rq.password, rq.name))
BeginDeleteUser(w) == \E u \in db.users : Begin(w, delete_user_load(db, u.id))
BeginGetAccount(w) == \E u \in db.users : Begin(w, get_account_load(db, u.id))
BeginDeposit(w) ==
    \E u \in db.users, a \in ConcAmounts :
        Begin(w, deposit_to_account_load(db, u.id, a))
BeginCreateCategory(w) ==
    \E name \in ConcCategoryNames : Begin(w, create_category_load(db, name))
BeginDeleteCategory(w) ==
    \E c \in db.categories : Begin(w, delete_category_load(db, TRUE, c.id))
BeginDeleteRecord(w) ==
    \E r \in db.records : Begin(w, delete_record_load(db, r.id))
BeginCreateRecord(w) ==
    \E rq \in ConcRecordRequests : Begin(w, create_record_load(db, rq))

Finish(w) ==
    /\ sess[w] # Idle
    /\ LET r == Commit(db, sess[w])
       IN  /\ WithinBounds(r.db)
           /\ db' = r.db
           /\ resp' = r.resp
    /\ sess' = [sess EXCEPT ![w] = Idle]
    /\ UNCHANGED tokens

NextConc ==
    \E w \in Workers :
        \/ BeginRegisterUser(w)
        \/ BeginDeleteUser(w)
        \/ BeginGetAccount(w)
        \/ BeginDeposit(w)
        \/ BeginCreateCategory(w)
        \/ BeginDeleteCategory(w)
        \/ BeginDeleteRecord(w)
        \/ BeginCreateRecord(w)
        \/ Finish(w)

SpecConc == Init /\ [][NextConc]_vars


-----------------------------------------------------------------------------
\* What the properties below speak of.

\* The step is the request's: it took the tables from db to db' and answered
\* resp'.
\* Requests with credentials, one at a time.  tokens holds the user ids login
\* has issued an access token for; a request carries any credential there
\* can be.
Credentials ==
    {NoCredential, BadCredential}
    \cup {Expired(i) : i \in tokens} \cup {Valid(i) : i \in tokens}

RegisterRequests ==
    {[op |-> "register_user", username |-> u, password |-> "pw",
      name |-> "Alice"] : u \in Usernames}
LoginRequests ==
    [op : {"login"}, username : Usernames \cup {""}, password : {"pw", "bad"}]
UserRequestsOf(op) == {[op |-> op, user_id |-> u] : u \in UserIds}
DepositRequestsOf(op) ==
    {[op |-> op, user_id |-> u.id, amount |-> a] :
        u \in db.users, a \in ConcAmounts}
CategoryRequestsOf(op) == {[op |-> op, category_id |-> c] : c \in CategoryIds}
RecordRequestsOf(op) == {[op |-> op, record_id |-> r] : r \in RecordIds}
CreateRecordRequests ==
    {[op |-> "create_record", body |-> rq] : rq \in ConcRecordRequests}
ListRecordsRequests ==
    {[op |-> "list_records", args |-> [user_id |-> IntParam(u.id),
                                        category_id |-> Absent]] :
        u \in db.users}

\* The requests of the protected routes.
ProtectedRequests ==
    UserRequestsOf("get_user") \cup UserRequestsOf("delete_user")
    \cup {[op |-> "list_users"]} \cup UserRequestsOf("get_account")
    \cup DepositRequestsOf("deposit_to_account")
    \cup {[op |-> "list_categories"]}
    \cup {[op |-> "create_category", name |-> "food"]}
    \cup CategoryRequestsOf("delete_category")
    \cup RecordRequestsOf("get_record") \cup RecordRequestsOf("delete_record")
    \cup CreateRecordRequests \cup ListRecordsRequests

Requested(rq, cred) == Handle(Serve(db, rq, cred))
Route(requests) ==
    \E rq \in requests, cred \in Credentials : Requested(rq, cred)

AuthHealthcheck == Requested([op |-> "healthcheck"], NoCredential)
AuthRegisterUser == \E rq \in RegisterRequests : Requested(rq, NoCredential)
\* A login that succeeds hands out a token.
AuthLogin ==
    \E rq \in LoginRequests :
        LET r == Serve(db, rq, NoCredential)
            issued == IF r.resp.code = 200
                      THEN {r.resp.body.access_token} ELSE {}
        IN  /\ Cardinality(tokens \cup issued) <= MaxTokens
            /\ resp' = r.resp
            /\ tokens' = tokens \cup issued
            /\ UNCHANGED <<db, sess>>
AuthGetUser == Route(UserRequestsOf("get_user"))
AuthDeleteUser == Route(UserRequestsOf("delete_user"))
AuthListUsers == Route({[op |-> "list_users"]})
AuthGetAccount == Route(UserRequestsOf("get_account"))
AuthDeposit == Route(DepositRequestsOf("deposit_to_account"))
AuthListCategories == Route({[op |-> "list_categories"]})
AuthCreateCategory == Route({[op |-> "create_category", name |-> "food"]})
AuthDeleteCategory == Route(CategoryRequestsOf("delete_category"))
AuthGetRecord == Route(RecordRequestsOf("get_record"))
AuthDeleteRecord == Route(RecordRequestsOf("delete_record"))
AuthCreateRecord == Route(CreateRecordRequests)
AuthListRecords == Route(ListRecordsRequests)

NextAuth ==
    \/ AuthHealthcheck
    \/ AuthRegisterUser
    \/ AuthLogin
    \/ AuthGetUser
    \/ AuthDeleteUser
    \/ AuthListUsers
    \/ AuthGetAccount
    \/ AuthDeposit
    \/ AuthListCategories
    \/ AuthCreateCategory
    \/ AuthDeleteCategory
    \/ AuthGetRecord
    \/ AuthDeleteRecord
    \/ AuthCreateRecord
    \/ AuthListRecords

SpecAuth == Init /\ [][NextAuth]_vars

-----------------------------------------------------------------------------
Answered(r) == db' = r.db /\ resp' = r.resp

\* The balance a request finds for a user: that of the account, or 0 when
\* there is none yet.
BalanceOf(d, user_id) ==
    IF user_account(d, user_id) = {} THEN Fin(0)
    ELSE (CHOOSE a \in user_account(d, user_id) : TRUE).balance

Exists(d, user_id) == user_get(d, user_id) # {}
Positive(amount) ==
    \/ amount.k = "fin" /\ amount.v > 0
    \/ amount.k \in {"inf", "huge"}
\* No user was ever deleted: every id the sequence gave out is a user's.
NoUserDeleted == Cardinality(db.users) = db.seq.users - 1

-----------------------------------------------------------------------------
\* C1: with requests one at a time, every account's balance is a number that
\* is at least 0.
C1_BalanceNonNegative ==
    \A a \in db.accounts : a.balance.k = "fin" /\ a.balance.v >= 0

\* C2: a create-record request with an existing user, an existing category
\* and a positive amount succeeds when the balance is at least the amount,
\* adds exactly one Record with that user, category and amount and leaves the
\* balance less the amount; it fails with Insufficient funds (400) and changes
\* nothing when the balance is less.
C2_DebitOrReject ==
    [][resp'.op = "create_record" =>
        \A rq \in RecordRequests :
            ( /\ Answered(create_record(db, rq))
              /\ rq.fields = RequiredFields
              /\ Exists(db, rq.user_id)
              /\ category_get(db, rq.category_id) # {}
              /\ Positive(rq.amount)
              /\ ~created_at_raises(rq.created_at)
              /\ BalanceOf(db, rq.user_id).k = "fin" )
            => LET before == BalanceOf(db, rq.user_id).v
               IN  IF rq.amount.k = "fin" /\ before >= rq.amount.v
                   THEN /\ resp'.code = 201
                        /\ \E r \in db'.records :
                            /\ r \notin db.records
                            /\ db'.records = db.records \cup {r}
                            /\ r.user_id = rq.user_id
                            /\ r.category_id = rq.category_id
                            /\ r.amount = rq.amount
                        /\ BalanceOf(db', rq.user_id) = Fin(before - rq.amount.v)
                   ELSE /\ resp' = error_response("create_record",
                                                  "Insufficient funds", 400)
                        /\ db' = db]_vars

\* C3: a create-record request that answers an error leaves the tables as
\* they were; one that succeeds has both inserted its Record and written the
\* debited balance.
C3_AllOrNothing ==
    [][(resp'.op = "create_record" /\ (resp' # resp \/ db' # db)) =>
        IF resp'.code # 201
        THEN db' = db
        ELSE \E rq \in RecordRequests :
                /\ Answered(create_record(db, rq))
                /\ \E r \in db'.records :
                    /\ r.id = resp'.body.id
                    /\ r.user_id = rq.user_id
                    /\ db'.records = db.records \cup {r}
                    /\ r \notin db.records
                /\ BalanceOf(db', rq.user_id)
                     = to_numeric(dec_sub(BalanceOf(db, rq.user_id), rq.amount))
                /\ db'.users = db.users
                /\ db'.categories = db.categories
                /\ \A a \in db.accounts :
                    a.user_id # rq.user_id => a \in db'.accounts]_vars

\* C3's case: a request was refused for insufficient funds after another had
\* succeeded.
C3_Witness ==
    /\ resp = error_response("create_record", "Insufficient funds", 400)
    /\ db.records # {}
    /\ db.accounts # {}

\* C4: on two workers, a Record is created only against a committed balance
\* that covers its amount, so the Records of two concurrent requests never
\* add up to more than the balance that was there before them.
C4_DebitsNeverOverlap ==
    [][\A r \in db'.records \ db.records :
        BalanceOf(db, r.user_id).v >= r.amount.v]_vars

\* C5: a deposit of a positive amount to an existing user succeeds and leaves
\* the balance it found (0 without an account) plus the amount, and the users,
\* categories and records as they were.
C5_DepositAdds ==
    [][resp'.op = "deposit_to_account" =>
        \A rq \in DepositRequests :
            ( /\ Answered(deposit_to_account(db, rq.user_id, rq.amount))
              /\ Exists(db, rq.user_id)
              /\ rq.amount.k \in {"fin", "huge"}
              /\ Positive(rq.amount)
              /\ BalanceOf(db, rq.user_id).k = "fin" )
            => /\ resp'.code = 200
               /\ rq.amount.k = "fin"
               /\ BalanceOf(db', rq.user_id)
                    = Fin(BalanceOf(db, rq.user_id).v + rq.amount.v)
               /\ db'.users = db.users
               /\ db'.categories = db.categories
               /\ db'.records = db.records]_vars

\* C6: a deposit whose amount is missing, no number, zero, negative, infinite
\* or NaN is answered 400, one for a user there is not is answered 404, and
\* either leaves the tables as they were.
C6_InvalidDepositRejected ==
    [][resp'.op = "deposit_to_account" =>
        \A rq \in DepositRequests :
            Answered(deposit_to_account(db, rq.user_id, rq.amount))
            => /\ ~Exists(db, rq.user_id) => (resp'.code = 404 /\ db' = db)
               /\ (Exists(db, rq.user_id) /\ ~(rq.amount.k \in {"fin", "huge"}
                                               /\ Positive(rq.amount)))
                    => (resp'.code = 400 /\ db' = db)]_vars

\* C7: get-account for a user without an account answers balance 0 and adds
\* exactly one account, of that user, with balance 0; for a user with an
\* account it answers that account and changes nothing; asked again, it
\* answers the same and changes nothing.
C7_GetAccountIdempotent ==
    [][resp'.op = "get_account" =>
        \A u \in UserIds :
            (Answered(get_account(db, u)) /\ Exists(db, u))
            => /\ resp'.code = 200
               /\ resp'.body.user_id = u
               /\ user_account(db', u) = {resp'.body}
               /\ IF user_account(db, u) = {}
                  THEN /\ resp'.body.balance = Fin(0)
                       /\ db'.accounts = db.accounts \cup {resp'.body}
                  ELSE db'.accounts = db.accounts
               /\ db'.users = db.users
               /\ db'.categories = db.categories
               /\ db'.records = db.records
               /\ get_account(db', u) = Result(db', resp')]_vars

\* C7's case: get-account has answered an account with balance 0 that is now
\* the user's one account.
C7_Witness ==
    /\ resp.op = "get_account"
    /\ resp.code = 200
    /\ resp.body.balance = Fin(0)
    /\ user_account(db, resp.body.user_id) = {resp.body}
    /\ Cardinality(db.users) = 2

\* C8: whatever the interleaving of the requests, no user has two accounts.
C8_OneAccountPerUser ==
    \A a1, a2 \in db.accounts : a1.user_id = a2.user_id => a1 = a2

\* C8's case: two requests found no account for the same user and both went
\* on to insert one; the first is committed, the second has been refused.
C8_Witness ==
    /\ resp.code = 500
    /\ resp.body.error = "IntegrityError"
    /\ NoUserDeleted
    /\ db.accounts # {}

\* C9: with no user deleted, a get-account or deposit request for a user
\* without an account succeeds whatever the other worker does.
C9_GetOrCreateSucceeds ==
    (resp.op \in {"get_account", "deposit_to_account"} /\ NoUserDeleted)
    => resp.code = 200

\* C10: deleting a Record there is removes that Record and nothing else, the
\* balance of its user staying what it was; deleting one there is not is
\* answered 404 and changes nothing.
C10_DeleteRecordOnly ==
    [][resp'.op = "delete_record" =>
        \A id \in RecordIds :
            Answered(delete_record(db, id))
            => IF record_get(db, id) = {}
               THEN resp'.code = 404 /\ db' = db
               ELSE /\ resp'.code = 200
                    /\ db'.records = db.records \ record_get(db, id)
                    /\ db'.accounts = db.accounts
                    /\ db'.users = db.users
                    /\ db'.categories = db.categories]_vars

\* C10's case: a Record of a user with an account was deleted and another
\* Record is still there.
C10_Witness ==
    /\ resp = Response("delete_record", 200, [status |-> "deleted"])
    /\ db.records # {}
    /\ \A r \in db.records : user_account(db, r.user_id) # {}

\* Every Record's user and category and every Account's user are rows there
\* are.
NoDanglingReference(d) ==
    /\ \A r \in d.records :
        user_get(d, r.user_id) # {} /\ category_get(d, r.category_id) # {}
    /\ \A a \in d.accounts : user_get(d, a.user_id) # {}

\* C11: deleting a Category removes every Record of that category, deleting a
\* User removes every Record and the Account of that user, and after every
\* request no Record and no Account refers to a User or Category that is gone.
C11_NoDanglingReference ==
    [][/\ NoDanglingReference(db')
       /\ (resp'.op = "delete_category" /\ resp'.code = 200) =>
            \E c \in db.categories :
                /\ Answered(delete_category(db, TRUE, c.id))
                /\ c \notin db'.categories
                /\ db'.records = {r \in db.records : r.category_id # c.id}
       /\ (resp'.op = "delete_user" /\ resp'.code = 200) =>
            \E u \in db.users :
                /\ Answered(delete_user(db, u.id))
                /\ u \notin db'.users
                /\ db'.records = {r \in db.records : r.user_id # u.id}
                /\ db'.accounts = {a \in db.accounts : a.user_id # u.id}]_vars

\* C11's case: of two categories one was deleted after a Record had been
\* created; no Record is left, and the user, the account and the other
\* category are.
C11_Witness ==
    /\ resp = Response("delete_category", 200, [status |-> "deleted"])
    /\ db.seq.records = 2
    /\ db.records = {}
    /\ db.seq.categories = 3
    /\ Cardinality(db.categories) = 1
    /\ db.users # {}
    /\ db.accounts # {}

NamesUnique(d) == \A c1, c2 \in d.categories : c1.name = c2.name => c1 = c2
NameHeld(d, name) == \E c \in d.categories : c.name = name
\* Worker w's request is answered in this step.
Finishes(w, op) == sess[w].op = op /\ sess'[w] = Idle
\* The category of this name is the one row the step adds.
CategoryCreated(name) ==
    /\ resp'.op = "create_category"
    /\ resp'.code = 201
    /\ \E c \in db'.categories :
        /\ c.name = name
        /\ c \notin db.categories
        /\ db'.categories = db.categories \cup {c}

Supplied(q) == q # Absent
MatchesParam(q, id) == Supplied(q) => (q.k = "int" /\ q.v = id)
Matching(d, rq) ==
    {r \in d.records : /\ MatchesParam(rq.user_id, r.user_id)
                       /\ MatchesParam(rq.category_id, r.category_id)}

\* C13: list-records with neither parameter is answered 400; with one or both
\* it answers exactly the Records that match every parameter supplied, by
\* strictly ascending id (a parameter that is no integer may instead be
\* refused with 400); it changes nothing.
C13_ListRecordsFilters ==
    [][resp'.op = "list_records" =>
        \A rq \in ListRequests :
            Answered(list_records(db, rq))
            => /\ db' = db
               /\ IF ~Supplied(rq.user_id) /\ ~Supplied(rq.category_id)
                  THEN resp'.code = 400
                  ELSE \/ /\ resp'.code = 400
                          /\ NotAnInt \in {rq.user_id, rq.category_id}
                       \/ /\ resp'.code = 200
                          /\ LET items == resp'.body.items
                             IN  /\ {items[i] : i \in 1..Len(items)}
                                      = {record_to_dict(r) : r \in Matching(db, rq)}
                                 /\ \A i, j \in 1..Len(items) :
                                      i < j => items[i].id < items[j].id]_vars

\* The answers of the loaders of __init__.py: they hold nothing of the tables.
Unauthorized == {unauthorized(NoCredential), unauthorized(BadCredential),
                 unauthorized(Expired(0))}

\* C14: in every state, a request to a protected route that carries no token,
\* a token the server did not sign or an expired token is answered 401 by a
\* loader, with nothing of the tables in the answer and no change to them;
\* login answers with a token only when the username is a user's and the
\* password verifies against that user's stored hash, and the token is that
\* user's; and every token there is was issued for a user that registered.
C14_CredentialRequired ==
    /\ \A rq \in ProtectedRequests, cred \in Credentials :
        cred.k # "valid" =>
            LET r == Serve(db, rq, cred)
            IN  r.resp \in Unauthorized /\ r.resp.code = 401 /\ r.db = db
    /\ \A rq \in LoginRequests :
        LET r == Serve(db, rq, NoCredential)
        IN  /\ r.db = db
            /\ r.resp.code = 200 =>
                \E u \in db.users :
                    /\ u.username = rq.username
                    /\ pbkdf2_sha256_verify(rq.password, u.password)
                    /\ r.resp.body = create_access_token(u.id)
    /\ \A i \in tokens : i \in 1..(db.seq.users - 1)

\* C14's case: with a token issued and a Record stored, a request with an
\* expired token was refused.
C14_Witness ==
    /\ resp = unauthorized(Expired(0))
    /\ tokens # {}
    /\ db.records # {}

\* C15: whichever issued token a request to a protected route carries, its
\* answer and the tables it leaves are the same.
C15_CallerIgnored ==
    \A rq \in ProtectedRequests, i, j \in tokens :
        Serve(db, rq, Valid(i)) = Serve(db, rq, Valid(j))

\* C15's case: user 1 holds the one token there is, and user 2's account has
\* been deposited to.
C15_Witness ==
    /\ tokens = {1}
    /\ \E a \in db.accounts : a.user_id = 2 /\ a.balance = Fin(10)

\* C16: after every request every stored Record has an amount above 0; a
\* create-record whose amount is zero, negative or no number is answered 400
\* and changes nothing; and a Record that stays keeps its amount.
C16_RecordAmountPositive ==
    [][/\ \A r \in db'.records : r.amount.k = "fin" /\ r.amount.v > 0
       /\ \A r \in db.records, s \in db'.records :
            r.id = s.id => s.amount = r.amount
       /\ resp'.op = "create_record" =>
            \A rq \in RecordRequests :
                ( /\ Answered(create_record(db, rq))
                  /\ rq.fields = RequiredFields
                  /\ Exists(db, rq.user_id)
                  /\ category_get(db, rq.category_id) # {}
                  /\ (float_raises(rq.amount) \/ float_le_zero(rq.amount)) )
                => resp'.code = 400 /\ db' = db]_vars

\* Balance b is a number above balance a.
Above(b, a) == a.k = "fin" /\ b.k = "fin" /\ b.v > a.v

\* C17: an account that stays has its balance changed only by a deposit to
\* its user that is answered 200, which raises it, or by a create-record of
\* its user that is answered 201, which lowers it; and a Record that stays is
\* the Record it was.
C17_BalanceFrame ==
    [][/\ \A a \in db.accounts, b \in db'.accounts :
            (a.id = b.id /\ a.balance # b.balance) =>
                /\ b.user_id = a.user_id
                /\ resp'.body.user_id = a.user_id
                /\ \/ /\ resp'.op = "deposit_to_account"
                      /\ resp'.code = 200
                      /\ Above(b.balance, a.balance)
                   \/ /\ resp'.op = "create_record"
                      /\ resp'.code = 201
                      /\ Above(a.balance, b.balance)
       /\ \A r \in db.records, s \in db'.records : r.id = s.id => s = r]_vars

\* A create-record request that passes every check before the account is
\* looked for.
ReachesLedger(d, rq) ==
    /\ rq.fields = RequiredFields
    /\ Exists(d, rq.user_id)
    /\ category_get(d, rq.category_id) # {}
    /\ ~float_raises(rq.amount)
    /\ ~float_le_zero(rq.amount)
    /\ ~created_at_raises(rq.created_at)

\* C18: after a get-account or a deposit that is answered 200, and after a
\* create-record that reaches the ledger step, the user of the request has an
\* account in the tables.
C18_AccountMaterialised ==
    [][/\ (resp'.op \in {"get_account", "deposit_to_account"}
            /\ resp'.code = 200) =>
                user_account(db', resp'.body.user_id) # {}
       /\ resp'.op = "create_record" =>
            \A rq \in RecordRequests :
                (Answered(create_record(db, rq)) /\ ReachesLedger(db, rq))
                => user_account(db', rq.user_id) # {}]_vars

\* C19: with requests one at a time the ledger is conserved, that is, every
\* request keeps balance = deposits - Records created for every user that
\* stays: a deposit answered 200 adds its amount to the balance, a Record
\* created takes its amount off it, and nothing else changes it (so the
\* balance, 0 when the account is made, is at all times the deposits less
\* the Records ever created, deleted or not).
C19_LedgerConserved ==
    [][\A u \in db.users :
        Exists(db', u.id) =>
            LET before == BalanceOf(db, u.id)
                after == BalanceOf(db', u.id)
                new == {r \in db'.records \ db.records : r.user_id = u.id}
            IN  /\ before.k = "fin"
                /\ after.k = "fin"
                /\ IF /\ resp'.op = "deposit_to_account"
                      /\ resp'.code = 200
                      /\ resp'.body.user_id = u.id
                   THEN \A rq \in DepositRequests :
                           ( /\ rq.user_id = u.id
                             /\ Answered(deposit_to_account(db, rq.user_id,
                                                            rq.amount)) )
                           => /\ rq.amount.k = "fin"
                              /\ after.v = before.v + rq.amount.v
                   ELSE IF new = {}
                   THEN after.v = before.v
                   ELSE \A r \in new :
                           /\ r.amount.k = "fin"
                           /\ after.v = before.v - r.amount.v]_vars

\* C20: on two workers no update of a balance is lost to a deposit or by one.
\* A deposit that is answered 200 leaves the balance committed just before it
\* plus its amount, whatever the other worker committed since the deposit
\* read the account; and a create-record that is answered 201 after a deposit
\* was committed behind its back leaves that committed balance less its
\* amount.
C20_NoLostUpdate ==
    [][\A w \in Workers :
        LET user_id == sess[w].user_id
            before == BalanceOf(db, user_id)
            after == BalanceOf(db', user_id)
        IN  /\ (Finishes(w, "deposit_to_account") /\ resp'.code = 200) =>
                \E a \in ConcAmounts : after = dec_add(before, a)
            /\ ( /\ Finishes(w, "create_record")
                 /\ resp'.code = 201
                 /\ dec_lt(dec_add(sess[w].balance, sess[w].amount), before) )
               => after = dec_sub(before, sess[w].amount)]_vars

=============================================================================
